---------------------------- MODULE Spec2Model ----------------------------
(***************************************************************************)
(* PowershellPositionSource (src/src/sensors/powershell_position_source.cpp)*)
(* as a state machine.  The adapter is single threaded: every public call   *)
(* and every slot (process state change, readable output, timer expiry)     *)
(* runs to completion, so each is one action.                               *)
(*                                                                          *)
(* A line of the child process's output is the sequence of its fields, i.e. *)
(* the text between the ';' separators.  Doubles are [nan, v] records with  *)
(* v in tenths; timestamps are milliseconds after 2020-01-01T00:00:00Z.     *)
(***************************************************************************)
EXTENDS Integers, Sequences, FiniteSets, TLC

VARIABLES
    script_empty,       \* powershell_script.isEmpty(), fixed at construction
    state,              \* powershell.state()
    updates_ongoing,    \* continuous mode flag
    position_error,     \* error()
    last_position,      \* lastKnownPosition()
    periodic_active,    \* periodic_update_timer.isActive()
    periodic_interval,  \* periodic_update_timer.interval()
    single_active,      \* single_update_timer.isActive()
    single_interval,    \* single_update_timer.interval()
    update_interval,    \* QGeoPositionInfoSource::updateInterval()
    killed,             \* powershell.kill() was called and the process's end is not yet noticed
    destroyed,          \* the destructor has run
    position,           \* history: the record most recently built by processPosition
    events,             \* signals emitted and process I/O done by the latest handler, in order
    slot_view,          \* what a slot connected to positionUpdated found at each emission
                        \* of the latest handler
    op,                 \* the latest handler and its input
    last_call           \* the latest public call made by the application

vars == <<script_empty, state, updates_ongoing, position_error, last_position,
          periodic_active, periodic_interval, single_active, single_interval,
          update_interval, killed, destroyed, position, events, slot_view, op, last_call>>

-----------------------------------------------------------------------------
(* Bounds and program constants *)

MaxBatch == 2
MaxTimestamp == 12000

minimumUpdateInterval == 1000
DefaultTimeout == 120000
readLineMaxSize == 100

Timeouts == {0, 999, 1000}
Intervals == {0, 2000}

-----------------------------------------------------------------------------
(* Values *)

D(v) == [nan |-> FALSE, v |-> v]
NaN == [nan |-> TRUE, v |-> 0]

InvalidPosition ==
    [lat |-> NaN, lon |-> NaN, alt |-> NaN, tsValid |-> FALSE, ts |-> 0,
     hacc |-> NaN, vacc |-> NaN]

\* QGeoCoordinate(latitude, longitude): invalid (NaN, NaN) unless both are in range
QGeoCoordinate(latitude, longitude) ==
    IF /\ ~latitude.nan /\ ~longitude.nan
       /\ latitude.v >= -900 /\ latitude.v <= 900
       /\ longitude.v >= -1800 /\ longitude.v <= 1800
    THEN [lat |-> latitude, lon |-> longitude, alt |-> NaN]
    ELSE [lat |-> NaN, lon |-> NaN, alt |-> NaN]

\* QGeoPositionInfo::isValid(): valid timestamp and valid coordinate
isValid(p) == p.tsValid /\ ~p.lat.nan /\ ~p.lon.nan

Ev(sig, arg) == [sig |-> sig, arg |-> arg, pos |-> InvalidPosition]
EvPosition(p) == [sig |-> "positionUpdated", arg |-> "", pos |-> p]

-----------------------------------------------------------------------------
(* Text of the child process's output *)

\* QString::toDouble(&ok) in the C locale: value 0 and ok = false when the text
\* is no number; the text NaN (in any case) is the number NaN.
NumberTable ==
    ("52.5" :> D(525)) @@ ("13.4" :> D(134)) @@ ("34.0" :> D(340)) @@
    ("5.0" :> D(50)) @@ ("3.0" :> D(30)) @@ ("48.1" :> D(481)) @@
    ("-11.6" :> D(-116)) @@ ("95.0" :> D(950)) @@ ("NaN" :> NaN) @@
    ("52.5000000000000" :> D(525)) @@ ("13.4000000000000" :> D(134)) @@
    ("34.0000000000000" :> D(340)) @@ ("5.00000000000000" :> D(50)) @@
    ("3.00000000000000" :> D(30)) @@ ("5.0000000000" :> D(50)) @@
    ("52.500000000000" :> D(525)) @@ ("13.400000000000" :> D(134)) @@
    ("34.00000000000" :> D(340)) @@ ("5.000000000000" :> D(50)) @@
    ("35" :> D(350)) @@ ("3" :> D(30)) @@ ("5" :> D(50))

toDouble(text) ==
    IF text \in DOMAIN NumberTable
    THEN [ok |-> TRUE, d |-> NumberTable[text]]
    ELSE [ok |-> FALSE, d |-> D(0)]

\* QDateTime::fromString(text, Qt::ISODate)
DateTable ==
    ("2020-01-01T00:00:00Z" :> 0) @@ ("2020-01-01T00:00:07Z" :> 7000)

fromString(text) ==
    IF text \in DOMAIN DateTable
    THEN [valid |-> TRUE, msecs |-> DateTable[text]]
    ELSE [valid |-> FALSE, msecs |-> 0]

PositionLine(status, time, lat, lon, alt, hac, vac) ==
    <<"Position", status, time, lat, lon, alt, hac, vac>>

GoodLine == PositionLine("Ready", "2020-01-01T00:00:00Z", "52.5", "13.4", "34.0", "5.0", "3.0")

\* Two lines of more than 99 characters: the 99th character is in the
\* horizontal accuracy of the first and is the first digit of the vertical
\* accuracy of the second
LongLine ==
    PositionLine("Ready", "2020-01-01T00:00:00Z", "52.5000000000000", "13.4000000000000",
                 "34.0000000000000", "5.00000000000000", "3.00000000000000")

LongLineCutInLastField ==
    PositionLine("Ready", "2020-01-01T00:00:00Z", "52.500000000000", "13.400000000000",
                 "34.00000000000", "5.000000000000", "35")

\* A Position line as the script prints it, in $positionChangedAction and in
\* $position alike: "Position;{0:u};$lat_;$lon_;$alt_;$hac_;$vac_", with the
\* time as yyyy-MM-dd HH:mm:ssZ and the numbers as PowerShell writes them
ScriptPositionLine(time, lat, lon, alt, hac, vac) ==
    <<"Position", time, lat, lon, alt, hac, vac>>

\* The fix 52.5 N 13.4 E, 35 m high, accurate to 5 m and 3 m, taken at 0:00:00
ScriptLine == ScriptPositionLine("2020-01-01 00:00:00Z", "52.5", "13.4", "35", "5", "3")

\* The lines the child process prints in this model, without white space
\* around them.  A Position line has a ';' after its status token: without one
\* read_cstring's length is negative.
Lines ==
    { GoodLine,
      LongLine,
      LongLineCutInLastField,
      ScriptLine,
      PositionLine("Ready", "2020-01-01T00:00:00Z", "52.5", "13.4", "34.0", "5.0", "NaN"),
      PositionLine("Ready", "2020-01-01T00:00:07Z", "48.1", "-11.6", "34.0", "3.0", "5.0"),
      PositionLine("Ready", "2020-01-01T00:00:00Z", "52.5", "13.4", "34.0", "NaN", "3.0"),
      PositionLine("Ready", "2020-01-01T00:00:07Z", "48.1", "-11.6", "NaN", "NaN", "NaN"),
      PositionLine("Closed", "2020-01-01T00:00:00Z", "52.5", "13.4", "34.0", "5.0", "3.0"),
      <<"Position", "Disabled", "">>,
      PositionLine("Ready", "yesterday", "52.5", "13.4", "34.0", "5.0", "3.0"),
      PositionLine("Ready", "2020-01-01T00:00:00Z", "north", "13.4", "34.0", "5.0", "3.0"),
      PositionLine("Ready", "2020-01-01T00:00:00Z", "52.5", "", "34.0", "5.0", "3.0"),
      PositionLine("Ready", "2020-01-01T00:00:00Z", "52.5", "13.4", "high", "5.0", "3.0"),
      PositionLine("Ready", "2020-01-01T00:00:00Z", "52.5", "13.4", "34.0", "5,0", "3.0"),
      PositionLine("Ready", "2020-01-01T00:00:00Z", "52.5", "13.4", "34.0", "5.0", "?"),
      <<"Position", "Ready", "2020-01-01T00:00:00Z", "52.5", "13.4", "34.0", "5.0">>,
      <<"Position", "Ready", "2020-01-01T00:00:00Z", "52.5">>,
      <<"Status", "Ready">>,
      <<"Permission", "Granted", "***">>,
      <<"Accuracy", "High", "***">>,
      <<"">> }

\* line.startsWith(tag ";")
startsWith(line, tag) == Len(line) >= 2 /\ line[1] = tag

\* The k-th call of read_cstring/read_string in processPosition: pos = next_pos + 1
\* and next_pos = line.indexOf(';', pos).  After the last field next_pos is -1, so
\* the next read starts again at offset 0, the tag.
readField(line, k) == line[(k % Len(line)) + 1]

\* pos == 0 once the seven fields are read
posIsZero(line) == (7 % Len(line)) + 1 = 1

\* The number of characters of a line: its fields and the ';' between them
RECURSIVE size(_)
size(line) ==
    IF line = <<>> THEN 0
    ELSE IF Len(line) = 1 THEN Len(line[1])
    ELSE Len(line[1]) + 1 + size(Tail(line))

\* The parts a field of the lines above can be cut into
Pieces == {"", "5.0000000000", "0000", "3", "5"}

\* text.left(n) and text.mid(n)
left(text, n) ==
    CHOOSE part \in Pieces \cup {text} :
        Len(part) = n /\ \E other \in Pieces \cup {text} : part \o other = text

mid(text, n) ==
    CHOOSE part \in Pieces \cup {text} :
        Len(part) = Len(text) - n /\ \E other \in Pieces \cup {text} : other \o part = text

\* The first maxlen characters of a line and the characters after them
RECURSIVE cut(_, _)
cut(line, maxlen) ==
    IF Len(line[1]) >= maxlen \/ Len(line) = 1
    THEN [head |-> <<left(line[1], maxlen)>>,
          tail |-> <<mid(line[1], maxlen)>> \o Tail(line)]
    ELSE LET c == cut(Tail(line), maxlen - Len(line[1]) - 1)
         IN  [head |-> <<line[1]>> \o c.head, tail |-> c.tail]

\* powershell.readLine(maxSize) with the text of one line or more waiting: at
\* most maxSize - 1 characters are returned, and what follows them in the
\* line stays in the buffer, to be returned by the next call as a line
readLine(buffer, maxSize) ==
    IF size(Head(buffer)) <= maxSize - 1
    THEN [line |-> Head(buffer), buffer |-> Tail(buffer)]
    ELSE LET c == cut(Head(buffer), maxSize - 1)
         IN  [line |-> c.head, buffer |-> <<c.tail>> \o Tail(buffer)]

\* The lines the loop of readStandardOutput reads until atEnd()
RECURSIVE readLines(_)
readLines(buffer) ==
    IF buffer = <<>> THEN <<>>
    ELSE LET r == readLine(buffer, readLineMaxSize)
         IN  <<r.line>> \o readLines(r.buffer)

-----------------------------------------------------------------------------
(* The adapter's fields as one record, so that a handler can call another *)

Adapter ==
    [state |-> state, updates_ongoing |-> updates_ongoing,
     position_error |-> position_error, last_position |-> last_position,
     periodic_active |-> periodic_active, periodic_interval |-> periodic_interval,
     single_active |-> single_active, single_interval |-> single_interval,
     killed |-> killed, position |-> position, events |-> <<>>, slot_view |-> <<>>]

emit(s, e) == [s EXCEPT !.events = Append(@, e)]

\* emit positionUpdated(p): the connected slots run now and find the adapter as it is
emitPositionUpdated(s, p) ==
    [emit(s, EvPosition(p)) EXCEPT
        !.slot_view = Append(@, [position_error |-> s.position_error,
                                 updates_ongoing |-> s.updates_ongoing,
                                 periodic_active |-> s.periodic_active,
                                 single_active |-> s.single_active])]

\* powershell.write(command)
write(s, command) == emit(s, Ev("write", command))

\* powershell.kill(): the process, if there is one, is terminated; its state
\* changes when the termination is noticed (ProcessDied)
kill(s) == [emit(s, Ev("kill", "")) EXCEPT !.killed = (s.state # "NotRunning")]

\* setError as a mutant would write it: a signal only when the error changes
setError_OnChange(s, error) ==
    LET t == [s EXCEPT !.position_error = error]
    IN  IF error # "NoError" /\ error # s.position_error
        THEN emit(t, Ev("error", error)) ELSE t

setError(s, error) ==
    LET t == [s EXCEPT !.position_error = error]
    IN  IF error # "NoError" THEN emit(t, Ev("error", error)) ELSE t

\* powershellStateChanged as a mutant would write it: the pending request
\* is served before the script is sent
powershellStateChanged_PositionFirst(s, new_state) ==
    CASE new_state = "Starting" -> s
      [] new_state = "Running" ->
            LET t == IF s.single_active THEN write(s, "position") ELSE s
            IN  write(t, "script")
      [] new_state = "NotRunning" -> [s EXCEPT !.updates_ongoing = FALSE]

powershellStateChanged(s, new_state) ==
    CASE new_state = "Starting" -> s
      [] new_state = "Running" ->
            LET t == write(s, "script")
            IN  IF t.single_active THEN write(t, "position") ELSE t
      [] new_state = "NotRunning" -> [s EXCEPT !.updates_ongoing = FALSE]

\* QProcess changes state and emits stateChanged, which runs the slot
setProcessState(s, new_state) ==
    powershellStateChanged(
        [s EXCEPT !.state = new_state,
                  !.killed = IF new_state = "NotRunning" THEN FALSE ELSE @],
        new_state)

\* What powershell.start() can leave behind when it returns: the process could
\* not be created, it is being created, or it is created already.
StartOutcomes ==
    IF script_empty THEN {"NotRunning"} ELSE {"NotRunning", "Starting", "Running"}

\* powershell.start().  Without a script no program was set and no slot was
\* connected: start() fails at once.
start(s, outcome) ==
    LET t == emit(s, Ev("start", ""))
    IN  CASE script_empty -> t
          [] ~script_empty /\ outcome = "NotRunning" ->
                setProcessState(setProcessState(t, "Starting"), "NotRunning")
          [] ~script_empty /\ outcome = "Starting" ->
                setProcessState(t, "Starting")
          [] ~script_empty /\ outcome = "Running" ->
                setProcessState(setProcessState(t, "Starting"), "Running")

\* init() as a mutant would write it: the state is not looked at after start()
init_IgnoringFailure(s, outcome) ==
    IF s.state # "NotRunning"
    THEN [ok |-> TRUE, s |-> s]
    ELSE [ok |-> TRUE, s |-> [start(s, outcome) EXCEPT !.periodic_interval = update_interval]]

\* init() as a mutant would write it: start() is called whatever the state
\* (QProcess::start() leaves a process alone that is starting or running)
init_AlwaysStart(s, outcome) ==
    IF s.state # "NotRunning"
    THEN [ok |-> TRUE,
          s |-> [emit(s, Ev("start", "")) EXCEPT !.periodic_interval = update_interval]]
    ELSE LET t == start(s, outcome)
         IN  IF t.state = "NotRunning"
             THEN [ok |-> FALSE,
                   s |-> setError([t EXCEPT !.updates_ongoing = FALSE], "UnknownSourceError")]
             ELSE [ok |-> TRUE, s |-> [t EXCEPT !.periodic_interval = update_interval]]

init(s, outcome) ==
    IF s.state # "NotRunning"
    THEN [ok |-> TRUE, s |-> s]
    ELSE LET t == start(s, outcome)
         IN  IF t.state = "NotRunning"
             THEN [ok |-> FALSE,
                   s |-> setError([t EXCEPT !.updates_ongoing = FALSE], "UnknownSourceError")]
             ELSE [ok |-> TRUE, s |-> [t EXCEPT !.periodic_interval = update_interval]]

startUpdates(s, outcome) ==
    LET i == init(s, outcome)
    IN  IF ~i.ok THEN i.s
        ELSE [i.s EXCEPT !.updates_ongoing = TRUE, !.periodic_active = TRUE]

\* stopUpdates as a mutant would write it: without the test of updates_ongoing
stopUpdates_Unguarded(s) ==
    kill([s EXCEPT !.periodic_active = FALSE, !.updates_ongoing = FALSE])

stopUpdates(s) ==
    IF s.updates_ongoing
    THEN kill([s EXCEPT !.periodic_active = FALSE, !.updates_ongoing = FALSE])
    ELSE s

\* requestUpdate as a mutant would write it: 0 is a timeout like any other
requestUpdate_ZeroIsShort(s, timeout, outcome) ==
    LET i == init(s, outcome)
    IN  IF ~i.ok THEN i.s
        ELSE LET t == setError(i.s, "NoError")
             IN  IF timeout < minimumUpdateInterval
                 THEN emit(t, Ev("updateTimeout", ""))
                 ELSE [t EXCEPT !.single_active = TRUE, !.single_interval = timeout]

requestUpdate(s, timeout, outcome) ==
    LET i == init(s, outcome)
    IN  IF ~i.ok THEN i.s
        ELSE LET t == setError(i.s, "NoError")
             IN  IF timeout = 0
                 THEN [t EXCEPT !.single_active = TRUE, !.single_interval = DefaultTimeout]
                 ELSE IF timeout < minimumUpdateInterval
                 THEN emit(t, Ev("updateTimeout", ""))
                 ELSE [t EXCEPT !.single_active = TRUE, !.single_interval = timeout]

\* nativePositionUpdate as a mutant would write it: the signal comes first
nativePositionUpdate_EmitFirst(s, new_position) ==
    LET t0 == emitPositionUpdated([s EXCEPT !.last_position = new_position], new_position)
        t1 == [t0 EXCEPT !.periodic_active = FALSE]
        t2 == IF t1.updates_ongoing THEN [t1 EXCEPT !.periodic_active = TRUE] ELSE t1
        t3 == IF t2.single_active THEN [t2 EXCEPT !.single_active = FALSE] ELSE t2
    IN  setError(t3, "NoError")

nativePositionUpdate(s, new_position) ==
    LET t1 == [s EXCEPT !.periodic_active = FALSE, !.last_position = new_position]
        t2 == IF t1.updates_ongoing THEN [t1 EXCEPT !.periodic_active = TRUE] ELSE t1
        t3 == IF t2.single_active THEN [t2 EXCEPT !.single_active = FALSE] ELSE t2
        t4 == setError(t3, "NoError")
    IN  emitPositionUpdated(t4, t4.last_position)

\* The QGeoPositionInfo built at lines 265-272
buildPosition(date_time, latitude, longitude, altitude, h_accuracy, v_accuracy) ==
    LET geo_coord == QGeoCoordinate(latitude, longitude)
    IN  [lat |-> geo_coord.lat, lon |-> geo_coord.lon,
         alt |-> IF ~v_accuracy.nan THEN altitude ELSE geo_coord.alt,
         tsValid |-> date_time.valid, ts |-> date_time.msecs,
         hacc |-> h_accuracy,
         vacc |-> IF ~v_accuracy.nan THEN v_accuracy ELSE NaN]

\* status != "Ready" (line 235), as a mutant would write it
statusNotReady_OnlyClosed(status) == status = "Closed"

statusNotReady(status) == status # "Ready"

\* The rejection test of lines 250-252, as a mutant would write it
couldNotParse_NoDateCheck(line, date_time, numbers_ok) ==
    \/ posIsZero(line)
    \/ \E i \in 1..5 : ~numbers_ok[i]

couldNotParse(line, date_time, numbers_ok) ==
    \/ posIsZero(line)
    \/ ~date_time.valid
    \/ \E i \in 1..5 : ~numbers_ok[i]

\* qIsNaN(h_accuracy) (line 259), as a mutant would write it
accuracyUnknown_Never(h_accuracy) == FALSE

accuracyUnknown(h_accuracy) == h_accuracy.nan

processPosition(s, line) ==
    LET status == readField(line, 1)
    IN  IF statusNotReady(status) THEN setError(s, "ClosedError")
        ELSE
        LET date_time == fromString(readField(line, 2))
            latitude == toDouble(readField(line, 3))
            longitude == toDouble(readField(line, 4))
            altitude == toDouble(readField(line, 5))
            h_accuracy == toDouble(readField(line, 6))
            v_accuracy == toDouble(readField(line, 7))
            numbers_ok == <<latitude.ok, longitude.ok, altitude.ok, h_accuracy.ok, v_accuracy.ok>>
        IN  IF couldNotParse(line, date_time, numbers_ok)
            THEN setError(s, "UnknownSourceError")
            ELSE IF accuracyUnknown(h_accuracy.d) THEN s
            ELSE nativePositionUpdate(
                    [s EXCEPT !.position = buildPosition(date_time, latitude.d, longitude.d,
                                                         altitude.d, h_accuracy.d, v_accuracy.d)],
                    s.last_position)

processStatus(s, line) == s

processPermission(s, line) == s

\* One pass of the loop body of readStandardOutput
processLine(s, line) ==
    IF startsWith(line, "Position") THEN processPosition(s, line)
    ELSE IF startsWith(line, "Status") THEN processStatus(s, line)
    ELSE IF startsWith(line, "Permission") THEN processPermission(s, line)
    ELSE s

RECURSIVE processLines(_, _)
processLines(s, lines) ==
    IF lines = <<>> THEN s
    ELSE processLines(processLine(s, Head(lines)), Tail(lines))

readStandardOutput(s, buffer) ==
    LET t == processLines(s, readLines(buffer))
    IN  IF t.updates_ongoing THEN write(t, "keepalive") ELSE kill(t)

\* periodicUpdateTimeout as a mutant would write it: no isValid() test
periodicUpdateTimeout_Unchecked(s) ==
    LET virtual_position == [s.last_position EXCEPT !.ts = @ + update_interval]
    IN  [emitPositionUpdated([s EXCEPT !.last_position = virtual_position], virtual_position)
            EXCEPT !.periodic_active = TRUE]

\* The slot runs from QTimer::timerEvent, which stops a single-shot timer
\* before it emits timeout()
periodicUpdateTimeout(s) ==
    LET t == IF isValid(s.last_position)
             THEN LET virtual_position ==
                        [s.last_position EXCEPT !.ts = @ + update_interval]
                  IN  emitPositionUpdated([s EXCEPT !.last_position = virtual_position],
                                          virtual_position)
             ELSE s
    IN  [t EXCEPT !.periodic_active = TRUE]

singleUpdateTimeout(s) ==
    IF s.single_active THEN emit(s, Ev("updateTimeout", "")) ELSE s

\* powershell.waitForFinished(1000) with the process starting or running.
\* While it waits, QProcess goes on emitting its signals, the slots run, and
\* wait says what happens: whether the process being created comes to run,
\* what output is read, and whether the process ends within the second.
\* The result is true when a process that ran has ended.
waitForFinished(s, wait) ==
    LET t1 == IF s.state = "Starting" /\ wait.start # "Starting"
              THEN setProcessState(s, wait.start)
              ELSE s
        t2 == IF t1.state = "Running" /\ wait.buffer # <<>>
              THEN readStandardOutput(t1, wait.buffer)
              ELSE t1
        t3 == IF t2.state = "Running" /\ wait.finished
              THEN setProcessState(t2, "NotRunning")
              ELSE t2
    IN  [finished |-> t1.state = "Running" /\ t3.state = "NotRunning", s |-> t3]

\* The destructor as a mutant would write it: it waits and leaves it at that
destructor_WaitOnly(s, wait) ==
    IF s.state # "NotRunning" THEN waitForFinished(s, wait).s ELSE s

\* ~PowershellPositionSource()
destructor(s, wait) ==
    IF s.state # "NotRunning"
    THEN LET w == waitForFinished(s, wait)
         IN  IF ~w.finished THEN kill(w.s) ELSE w.s
    ELSE s

-----------------------------------------------------------------------------
(* The state machine *)

\* What one readyRead delivers: any one line, or up to MaxBatch lines, each an
\* accepted, a closed or a malformed one
CoreLines ==
    { GoodLine,
      PositionLine("Closed", "2020-01-01T00:00:00Z", "52.5", "13.4", "34.0", "5.0", "3.0"),
      PositionLine("Ready", "2020-01-01T00:00:00Z", "north", "13.4", "34.0", "5.0", "3.0") }

Batches == {<<line>> : line \in Lines} \cup UNION {[1..n -> CoreLines] : n \in 2..MaxBatch}

\* What can happen while the destructor waits, given the process's state
Wait(outcome, buffer, finished) ==
    [start |-> outcome, buffer |-> buffer, finished |-> finished]

WaitOutcomes ==
    CASE state = "NotRunning" -> {Wait("NotRunning", <<>>, FALSE)}
      [] state = "Starting" ->
            {Wait("NotRunning", <<>>, FALSE), Wait("Starting", <<>>, FALSE)}
            \cup {Wait("Running", buffer, finished) :
                      buffer \in {<<>>} \cup {<<line>> : line \in CoreLines},
                      finished \in BOOLEAN}
      [] state = "Running" ->
            {Wait("Running", buffer, finished) :
                buffer \in {<<>>} \cup {<<line>> : line \in CoreLines},
                finished \in BOOLEAN}

Op(name, timeout, lines) == [name |-> name, timeout |-> timeout, lines |-> lines]

\* The handler's result r becomes the adapter's state
Becomes(r, o, call) ==
    /\ state' = r.state
    /\ updates_ongoing' = r.updates_ongoing
    /\ position_error' = r.position_error
    /\ last_position' = r.last_position
    /\ periodic_active' = r.periodic_active
    /\ periodic_interval' = r.periodic_interval
    /\ single_active' = r.single_active
    /\ single_interval' = r.single_interval
    /\ killed' = r.killed
    /\ position' = r.position
    /\ events' = r.events
    /\ slot_view' = r.slot_view
    /\ op' = o
    /\ last_call' = call
    /\ UNCHANGED <<script_empty, update_interval>>

\* The state after the constructor: with an empty script it sets the error and
\* returns before anything is connected.
Init ==
    /\ script_empty \in BOOLEAN
    /\ state = "NotRunning"
    /\ updates_ongoing = FALSE
    /\ position_error = IF script_empty THEN "UnknownSourceError" ELSE "NoError"
    /\ last_position = InvalidPosition
    /\ periodic_active = FALSE
    /\ periodic_interval = 0
    /\ single_active = FALSE
    /\ single_interval = 0
    /\ update_interval = 0
    /\ killed = FALSE
    /\ destroyed = FALSE
    /\ position = InvalidPosition
    /\ events = IF script_empty THEN <<Ev("error", "UnknownSourceError")>> ELSE <<>>
    /\ slot_view = <<>>
    /\ op = Op("PowershellPositionSource", 0, <<>>)
    /\ last_call = "none"

StartUpdates ==
    \E outcome \in StartOutcomes :
        /\ ~destroyed
        /\ UNCHANGED destroyed
        /\ Becomes(startUpdates(Adapter, outcome), Op("startUpdates", 0, <<>>), "startUpdates")

StopUpdates ==
    /\ ~destroyed
    /\ UNCHANGED destroyed
    /\ Becomes(stopUpdates(Adapter), Op("stopUpdates", 0, <<>>), "stopUpdates")

RequestUpdate ==
    \E timeout \in Timeouts, outcome \in StartOutcomes :
        /\ ~destroyed
        /\ UNCHANGED destroyed
        /\ Becomes(requestUpdate(Adapter, timeout, outcome),
                   Op("requestUpdate", timeout, <<>>), "requestUpdate")

\* QGeoPositionInfoSource::setUpdateInterval(), not overridden by the adapter
SetUpdateInterval ==
    \E msec \in Intervals :
        /\ ~destroyed
        /\ update_interval' = msec
        /\ events' = <<>>
        /\ slot_view' = <<>>
        /\ op' = Op("setUpdateInterval", msec, <<>>)
        /\ UNCHANGED <<script_empty, state, updates_ongoing, position_error, last_position,
                       periodic_active, periodic_interval, single_active, single_interval,
                       killed, destroyed, position, last_call>>

\* The process being created reports that it runs
ProcessStarted ==
    /\ ~destroyed
    /\ UNCHANGED destroyed
    /\ state = "Starting"
    /\ Becomes(setProcessState(Adapter, "Running"), Op("powershellStateChanged", 0, <<>>),
               last_call)

\* The process ended: it failed to start, exited, crashed or was killed
ProcessDied ==
    /\ ~destroyed
    /\ UNCHANGED destroyed
    /\ state # "NotRunning"
    /\ Becomes(setProcessState(Adapter, "NotRunning"), Op("powershellStateChanged", 0, <<>>),
               last_call)

\* readyReadStandardOutput with some complete lines to read
ReadStandardOutput ==
    /\ ~destroyed
    /\ UNCHANGED destroyed
    /\ state = "Running"
    /\ \E lines \in Batches :
        Becomes(readStandardOutput(Adapter, lines), Op("readStandardOutput", 0, lines),
                last_call)

\* The periodic timer expires.  It is single-shot (line 58): QTimer stops it
\* before the slot runs.  The first guard bounds the timestamps of the model.
PeriodicUpdateTimeout ==
    /\ ~destroyed
    /\ UNCHANGED destroyed
    /\ last_position.ts + update_interval <= MaxTimestamp
    /\ periodic_active
    /\ Becomes(periodicUpdateTimeout([Adapter EXCEPT !.periodic_active = FALSE]),
               Op("periodicUpdateTimeout", 0, <<>>), last_call)

\* The single-shot timer (line 61) expires: QTimer stops it before the slot runs
SingleUpdateTimeout ==
    /\ ~destroyed
    /\ UNCHANGED destroyed
    /\ single_active
    /\ Becomes(singleUpdateTimeout([Adapter EXCEPT !.single_active = FALSE]),
               Op("singleUpdateTimeout", 0, <<>>), last_call)

\* The adapter is destroyed; nothing is called on it afterwards
Destroy ==
    /\ ~destroyed
    /\ destroyed' = TRUE
    /\ \E wait \in WaitOutcomes :
        Becomes(destructor(Adapter, wait), Op("~PowershellPositionSource", 0, wait.buffer),
                last_call)

Next ==
    \/ StartUpdates
    \/ StopUpdates
    \/ RequestUpdate
    \/ SetUpdateInterval
    \/ ProcessStarted
    \/ ProcessDied
    \/ ReadStandardOutput
    \/ PeriodicUpdateTimeout
    \/ SingleUpdateTimeout
    \/ Destroy

Spec == Init /\ [][Next]_vars

-----------------------------------------------------------------------------
(* What the claims speak of *)

HasSignal(evs, sig) == \E i \in DOMAIN evs : evs[i].sig = sig

Count(evs, e) == Cardinality({i \in DOMAIN evs : evs[i] = e})

IsRead(o) == o.name = "readStandardOutput"

\* Every line of the batch just read satisfies P
AllLines(o, P(_)) == IsRead(o) /\ \A i \in DOMAIN o.lines : P(o.lines[i])

\* 'Position;Ready;<valid timestamp>;<lat>;<lon>;<alt>;<h_acc>;<v_acc>' with five numbers
WellFormed(line) ==
    /\ Len(line) = 8
    /\ line[1] = "Position"
    /\ line[2] = "Ready"
    /\ line[3] \in DOMAIN DateTable
    /\ \A i \in 4..8 : line[i] \in DOMAIN NumberTable

Acceptable(line) == WellFormed(line) /\ line[7] # "NaN"

HAccuracyUnknown(line) == WellFormed(line) /\ line[7] = "NaN"

Malformed(line) == startsWith(line, "Position") /\ line[2] = "Ready" /\ ~WellFormed(line)

NotReady(line) == startsWith(line, "Position") /\ line[2] # "Ready"

\* The record a line stands for
RecordOf(line) ==
    [lat |-> NumberTable[line[4]], lon |-> NumberTable[line[5]],
     alt |-> IF line[8] = "NaN" THEN NaN ELSE NumberTable[line[6]],
     tsValid |-> TRUE, ts |-> DateTable[line[3]],
     hacc |-> NumberTable[line[7]],
     vacc |-> IF line[8] = "NaN" THEN NaN ELSE NumberTable[line[8]]]

ShortTimeout(o) ==
    o.name = "requestUpdate" /\ 0 < o.timeout /\ o.timeout < minimumUpdateInterval

ProperTimeout(o) ==
    o.name = "requestUpdate" /\ (o.timeout = 0 \/ o.timeout >= minimumUpdateInterval)

TimersUnchanged ==
    UNCHANGED <<periodic_active, periodic_interval, single_active, single_interval>>

-----------------------------------------------------------------------------
(* Claims *)

\* C1: processing an acceptable Position line stores the record parsed from
\* that line as lastKnownPosition() and emits it in positionUpdated.
C1_AcceptedRecordIsStoredAndEmitted ==
    [][(IsRead(op') /\ Len(op'.lines) = 1 /\ Acceptable(op'.lines[1]))
        => /\ last_position' = RecordOf(op'.lines[1])
           /\ Count(events', EvPosition(RecordOf(op'.lines[1]))) = 1]_vars

\* C2: when the single-shot timer armed by requestUpdate expires, updateTimeout
\* is signalled exactly once.
C2_ExpirySignalsUpdateTimeout ==
    [][op'.name = "singleUpdateTimeout"
        => Count(events', Ev("updateTimeout", "")) = 1]_vars

\* C3: after requestUpdate(t), t = 0 or t >= minimumUpdateInterval(), the
\* position command is written exactly once as soon as the process runs: by
\* requestUpdate itself when the process runs as it returns, by the change to
\* Running otherwise.
C3_PositionAskedOnceWhenRunning ==
    [][/\ (ProperTimeout(op') /\ single_active' /\ state' = "Running")
            => Count(events', Ev("write", "position")) = 1
       /\ (op'.name = "powershellStateChanged" /\ state' = "Running" /\ single_active)
            => Count(events', Ev("write", "position")) = 1]_vars

\* C4: requestUpdate(t) with 0 < t < minimumUpdateInterval() does not start the
\* process, writes nothing to it and does not arm the single-shot timer.
C4_ShortTimeoutLeavesProcessAlone ==
    [][ShortTimeout(op')
        => /\ state' = state
           /\ ~HasSignal(events', "write")
           /\ ~HasSignal(events', "kill")
           /\ UNCHANGED <<single_active, single_interval>>]_vars

\* C5: requestUpdate(t) with 0 < t < minimumUpdateInterval() signals
\* updateTimeout exactly once, whatever the adapter's state.
C5_ShortTimeoutSignalsUpdateTimeout ==
    [][ShortTimeout(op') => Count(events', Ev("updateTimeout", "")) = 1]_vars

\* C6: once a Position record was accepted, an expiry of the periodic timer
\* emits the last record with its timestamp advanced by the update interval and
\* the accepted coordinates, stores it and re-arms the timer.
C6_PeriodicExpiryEmitsSyntheticUpdate ==
    [][(op'.name = "periodicUpdateTimeout" /\ isValid(position))
        => LET synthetic == [last_position EXCEPT !.ts = @ + update_interval]
           IN  /\ events' = <<EvPosition(synthetic)>>
               /\ synthetic.lat = position.lat
               /\ synthetic.lon = position.lon
               /\ last_position' = synthetic
               /\ periodic_active']_vars

C8_NotReadySetsClosedError ==
    [][AllLines(op', NotReady)
        => /\ position_error' = "ClosedError"
           /\ Count(events', Ev("error", "ClosedError")) = Len(op'.lines)
           /\ ~HasSignal(events', "positionUpdated")
           /\ last_position' = last_position
           /\ updates_ongoing' = updates_ongoing
           /\ TimersUnchanged]_vars

C8_Witness ==
    /\ AllLines(op, NotReady)
    /\ position_error = "ClosedError"
    /\ periodic_active /\ single_active /\ updates_ongoing

\* C9: a well-formed Position;Ready line with horizontal accuracy NaN changes
\* nothing: no positionUpdated, no error signal, and error(),
\* lastKnownPosition(), the continuous-mode flag and both timers stay as they are.
C9_UnknownAccuracyIsDiscarded ==
    [][AllLines(op', HAccuracyUnknown)
        => /\ ~HasSignal(events', "positionUpdated")
           /\ ~HasSignal(events', "error")
           /\ position_error' = position_error
           /\ last_position' = last_position
           /\ updates_ongoing' = updates_ongoing
           /\ TimersUnchanged]_vars

C9_Witness ==
    /\ AllLines(op, HAccuracyUnknown)
    /\ position_error = "ClosedError"
    /\ periodic_active /\ single_active /\ updates_ongoing

\* C10: between stopUpdates() and the next startUpdates() or requestUpdate(),
\* no expiry of the periodic or the single-shot timer emits positionUpdated.
C10_NoUpdateFromTimersAfterStop ==
    [][(last_call = "stopUpdates"
        /\ op'.name \in {"periodicUpdateTimeout", "singleUpdateTimeout"})
        => ~HasSignal(events', "positionUpdated")]_vars

C10_Witness ==
    /\ last_call = "stopUpdates"
    /\ op.name = "periodicUpdateTimeout"
    /\ isValid(position)

\* C11: an adapter constructed with an empty script has error =
\* UnknownSourceError and no child process, and stays so whatever is called:
\* the process never starts or runs, continuous mode and both timers stay off,
\* and no positionUpdated is emitted.
C11_EmptyScriptDisablesUpdates ==
    script_empty
        => /\ state = "NotRunning"
           /\ position_error = "UnknownSourceError"
           /\ ~updates_ongoing
           /\ ~periodic_active
           /\ ~single_active
           /\ ~HasSignal(events, "positionUpdated")

C11_Witness ==
    /\ script_empty
    /\ op.name = "requestUpdate"
    /\ last_call = "requestUpdate"
    /\ Count(events, Ev("error", "UnknownSourceError")) = 1

\* C12 as stated: an error is signalled only when the error condition
\* changes; a handler that sets an error once and leaves error() as it was has
\* signalled nothing.  Setting NoError signals nothing.
C12_ErrorSignalledOncePerTransition ==
    [][/\ ((op'.name \in {"startUpdates", "requestUpdate"}
             \/ (IsRead(op') /\ Len(op'.lines) = 1))
           /\ position_error' = position_error)
            => ~HasSignal(events', "error")
       /\ Count(events', Ev("error", "NoError")) = 0]_vars

\* The errors set by the lines read, in order
RECURSIVE ErrorsSetByRead(_)
ErrorsSetByRead(read) ==
    IF read = <<>> THEN <<>>
    ELSE (IF NotReady(Head(read)) THEN <<Ev("error", "ClosedError")>>
          ELSE IF Malformed(Head(read)) THEN <<Ev("error", "UnknownSourceError")>>
          ELSE <<>>) \o ErrorsSetByRead(Tail(read))

\* The errors set when a line is printed and read
ErrorsSetByLine == [line \in Lines |-> ErrorsSetByRead(readLines(<<line>>))]

\* The errors set when these lines are printed and read, in order
RECURSIVE ErrorsSetBy(_)
ErrorsSetBy(lines) ==
    IF lines = <<>> THEN <<>>
    ELSE ErrorsSetByLine[Head(lines)] \o ErrorsSetBy(Tail(lines))

IsErrorSignal(e) == e.sig = "error"

\* C12 amended: every setting of an error other than NoError signals it once,
\* also when it is the current error already: a handler signals one error per
\* failed start and per rejected Position line it read, in that order.
\* Setting NoError signals nothing.
C12_ErrorSignalledOnEverySetting ==
    [][/\ SelectSeq(events', IsErrorSignal)
            = IF op'.name \in {"startUpdates", "requestUpdate"} /\ state' = "NotRunning"
              THEN <<Ev("error", "UnknownSourceError")>>
              ELSE ErrorsSetBy(op'.lines)
       /\ Count(events', Ev("error", "NoError")) = 0
       /\ (position_error' # position_error /\ position_error' # "NoError")
            => Count(events', Ev("error", position_error')) >= 1]_vars

C12_Witness ==
    /\ IsRead(op)
    /\ Len(op.lines) = 2
    /\ AllLines(op, NotReady)
    /\ Count(events, Ev("error", "ClosedError")) = 2

\* C13: once the destructor has run, the child process has ended or was killed.
C13_DestructorLeavesNoProcess ==
    destroyed => (state = "NotRunning" \/ killed)

C13_Witness ==
    /\ destroyed
    /\ state = "Running"
    /\ killed
    /\ events[Len(events)] = Ev("kill", "")

\* C14: stopUpdates() with continuous mode inactive changes nothing and neither
\* writes nor kills; with continuous mode active it disarms the periodic timer,
\* clears continuous mode and kills the process; so a second call in a row
\* leaves what the first left.
C14_StopUpdatesIsIdempotent ==
    [][op'.name = "stopUpdates"
        => /\ ~updates_ongoing
                => /\ events' = <<>>
                   /\ UNCHANGED <<state, updates_ongoing, position_error, last_position,
                                  periodic_active, periodic_interval, single_active,
                                  single_interval, update_interval, killed>>
           /\ updates_ongoing
                => /\ events' = <<Ev("kill", "")>>
                   /\ ~periodic_active'
                   /\ ~updates_ongoing'
                   /\ killed'
           /\ op.name = "stopUpdates"
                => /\ events' = <<>>
                   /\ UNCHANGED <<state, updates_ongoing, position_error, last_position,
                                  periodic_active, periodic_interval, single_active,
                                  single_interval, update_interval, killed>>]_vars

C14_Witness ==
    /\ op.name = "stopUpdates"
    /\ events = <<>>
    /\ killed
    /\ state = "Running"
    /\ ~updates_ongoing
    /\ ~periodic_active

\* C15: when the process is starting or running as requestUpdate(t) returns,
\* the single-shot timer is armed with 120000 ms for t = 0 and with t for
\* t >= minimumUpdateInterval(), whatever it was armed with before.
C15_RequestUpdateArmsSingleShotTimer ==
    [][(ProperTimeout(op') /\ state' # "NotRunning")
        => /\ single_active'
           /\ single_interval' = IF op'.timeout = 0 THEN 120000 ELSE op'.timeout]_vars

C15_Witness ==
    /\ ProperTimeout(op)
    /\ op.timeout = 0
    /\ state = "Starting"
    /\ single_active
    /\ single_interval = 120000

\* The control state an accepted record leaves
Settled(view) ==
    /\ view.position_error = "NoError"
    /\ ~view.single_active
    /\ view.periodic_active = view.updates_ongoing

\* C16: when a Position record is accepted, a slot connected to
\* positionUpdated finds the control state updated already: error() = NoError,
\* the single-shot timer not armed, the periodic timer armed exactly if
\* continuous mode is active.  That is also the state the callback leaves when
\* nothing was rejected after the accepted record.
C16_AcceptanceUpdatesControlState ==
    [][IsRead(op')
        => /\ \A i \in DOMAIN slot_view' :
                Settled(slot_view'[i]) /\ slot_view'[i].updates_ongoing = updates_ongoing
           /\ (Len(events') >= 2 /\ events'[Len(events') - 1].sig = "positionUpdated")
                => /\ position_error' = "NoError"
                   /\ ~single_active'
                   /\ periodic_active' = updates_ongoing'
                   /\ updates_ongoing' = updates_ongoing]_vars

C16_Witness ==
    /\ op = Op("readStandardOutput", 0, <<GoodLine>>)
    /\ Len(slot_view) = 1
    /\ Settled(slot_view[1])
    /\ updates_ongoing
    /\ periodic_active
    /\ ~single_active
    /\ events[1].sig = "positionUpdated"

\* C17: powershell.start() is called only by startUpdates() and
\* requestUpdate(), once, and only with the process not running; no other
\* handler brings the process out of NotRunning.  When the process ends,
\* continuous mode is cleared.
C17_ProcessStartedOnlyByCalls ==
    [][/\ HasSignal(events', "start")
            => /\ op'.name \in {"startUpdates", "requestUpdate"}
               /\ state = "NotRunning"
               /\ Count(events', Ev("start", "")) = 1
       /\ (state = "NotRunning" /\ state' # "NotRunning")
            => op'.name \in {"startUpdates", "requestUpdate"}
       /\ (state # "NotRunning" /\ state' = "NotRunning")
            => ~updates_ongoing']_vars

\* The process ended on its own in continuous mode, and the periodic timer
\* has expired since
C17_Witness ==
    /\ op.name = "periodicUpdateTimeout"
    /\ last_call = "startUpdates"
    /\ state = "NotRunning"
    /\ ~updates_ongoing
    /\ ~killed

IsWrite(e) == e.sig = "write"

\* C18: a handler writes the script at most once, only if the process was not
\* running before it, and before anything else it writes; it writes the
\* script if it leaves a process running that was not; and what a handler
\* writes to a process that ran before it is never the script.  So each run
\* of the process gets the script once, at its change to Running, before any
\* other command.
C18_ScriptWrittenOnceAndFirst ==
    [][LET written == SelectSeq(events', IsWrite)
       IN  /\ Count(events', Ev("write", "script")) <= 1
           /\ Count(events', Ev("write", "script")) = 1
                => state # "Running" /\ written[1] = Ev("write", "script")
           /\ (state # "Running" /\ state' = "Running")
                => Count(events', Ev("write", "script")) = 1
           /\ written # <<>>
                => state = "Running" \/ written[1] = Ev("write", "script")
           /\ state = "Running" => Count(events', Ev("write", "script")) = 0]_vars

C18_Witness ==
    /\ op.name = "powershellStateChanged"
    /\ state = "Running"
    /\ events = <<Ev("write", "script"), Ev("write", "position")>>

\* C19: a line the process prints is parsed from its complete text whatever
\* its length: reading one acceptable line builds the record that line stands
\* for and signals no error, and what is read are the lines printed.
C19_LinesAreParsedWhole ==
    [][(IsRead(op') /\ Len(op'.lines) = 1 /\ Acceptable(op'.lines[1]))
        => /\ position' = RecordOf(op'.lines[1])
           /\ ~HasSignal(events', "error")
           /\ Len(readLines(op'.lines)) = 1]_vars

\* C20: a request armed by requestUpdate is pending until it is resolved: the
\* single-shot timer is disarmed only by a handler that emits positionUpdated
\* or updateTimeout, and reading output does not kill the process while the
\* timer is armed.
C20_PendingRequestIsResolved ==
    [][/\ (single_active /\ ~single_active')
            => HasSignal(events', "positionUpdated") \/ HasSignal(events', "updateTimeout")
       /\ (IsRead(op') /\ single_active') => ~HasSignal(events', "kill")]_vars

\* C21: in every reachable state the periodic timer is armed only while
\* continuous mode is active.
C21_PeriodicArmedOnlyInContinuousMode ==
    periodic_active => updates_ongoing

\* C22: a Position line the bundled script prints for a valid fix with known
\* horizontal accuracy is accepted: reading it emits positionUpdated, signals
\* no error and leaves error() = NoError.
C22_ScriptLineIsAccepted ==
    [][(IsRead(op') /\ op'.lines = <<ScriptLine>>)
        => /\ HasSignal(events', "positionUpdated")
           /\ ~HasSignal(events', "error")
           /\ position_error' = "NoError"]_vars

\* C23: the periodic timer is never armed with an interval below
\* minimumUpdateInterval(), and a synthetic update is later than the record
\* it was made from by exactly the interval the timer was armed with.
C23_PeriodicIntervalAtLeastMinimum ==
    [][/\ periodic_active' => periodic_interval' >= minimumUpdateInterval
       /\ (op'.name = "periodicUpdateTimeout" /\ HasSignal(events', "positionUpdated"))
            => /\ last_position'.ts > last_position.ts
               /\ last_position'.ts - last_position.ts = periodic_interval]_vars

=============================================================================
